---- MODULE Spec2Model ----
(***************************************************************************)
(* LawCrawler: the batch runner, the JSON sink, the per-source process_law *)
(* and listing discovery of the six crawlers, their requests, and main().  *)
(*                                                                         *)
(*   Spec       process_batch over an arbitrary process_func whose         *)
(*              outcome per item is truthy, falsy or an exception          *)
(*   SpecCrawl  process_batch running a crawler's process_law, with the    *)
(*              output directory and the steps of save_json                *)
(*   SpecSeq    SpecCrawl with a pool of one worker                        *)
(*   SpecLaw    the same program over a one-item list, for every page a    *)
(*              source can meet                                            *)
(*   SpecFault  SpecCrawl over items of which some cannot be fetched and   *)
(*              some cannot be saved                                       *)
(*   SpecMain   main(): the chosen crawlers in order, each discovering its *)
(*              work items (get_law_urls) and handing them to              *)
(*              process_batch                                              *)
(*   SpecNet    the delays, requests and retries of one unit of work       *)
(***************************************************************************)
EXTENDS Naturals, Sequences, FiniteSets

VARIABLES
    config,           \* self.config: batch_size, max_workers
    src,              \* which crawler class runs ("func": a bare process_func)
    urls,             \* the work items handed to process_batch
    hashseed,         \* the process's string-hash seed (PYTHONHASHSEED)
    pc,               \* the driver: "loop", "submit", "collect", "done", "killed"
    i,                \* the for loop's index (0-based first item of the batch)
    submitted,        \* len(futures) of the current executor
    fut,              \* per item: the future / its worker's position
    result,           \* per item: what the future holds
    collected,        \* per item: as_completed has yielded it
    calls,            \* per item: number of process_func invocations
    saves,            \* per item: number of save_json invocations
    processed_count,  \* processed_count
    progress,         \* pbar.n
    dirExists,        \* the output directory exists
    files,            \* path -> content, the files on disk
    offset,           \* per item: the open file's position
    source,           \* args.source of main()
    site,             \* per source: what its listing pages answer
    mpc,              \* main(): the number of the "if args.source in" block it is at
    started,          \* the crawlers whose run() was called, in order
    handed,           \* per source: whether run() called process_batch, and with what
    unit,             \* the unit of work whose requests are followed
    script,           \* the delays and requests the unit has still to make
    log,              \* the delays and requests it has made
    attempts,         \* retries the session has made of the request in hand
    status,           \* the last HTTP status the session received (0: none)
    markup,           \* the detail page(s) get_law_json is called on
    returned,         \* <<>> before get_law_json returns, then <<its value>>
    chain,            \* the listing site get_law_urls walks: its pages
    wpc,              \* get_law_urls: "start", "loop", "returned"
    current_url,      \* the page the while loop is at (0: None)
    all_links,        \* the links collected so far
    fetched,          \* the pages get_law_links_from_page requested, in order
    wstate,           \* per worker: "ready", "asleep", "awake", "requested"
    drawn,            \* per worker: the value random.uniform gave
    slept             \* per worker: how long it has been in time.sleep

driverVars == <<config, src, urls, hashseed, pc, i, submitted, fut, result, collected,
                calls, saves, processed_count, progress, dirExists, files, offset>>

mainVars == <<source, site, mpc, started, handed>>

netVars == <<unit, script, log, attempts, status>>

parseVars == <<markup, returned>>

walkVars == <<chain, wpc, current_url, all_links, fetched>>

delayVars == <<wstate, drawn, slept>>

extraVars == <<parseVars, walkVars, delayVars>>

outerVars == <<mainVars, netVars, extraVars>>

vars == <<driverVars, mainVars, netVars, extraVars>>

crawlVars == <<saves, dirExists, files, offset>>

\* main() is not running
IdleMain ==
    /\ source = "none"
    /\ site = <<>>
    /\ mpc = 0
    /\ started = <<>>
    /\ handed = <<>>

\* no unit of work is followed
IdleNet ==
    /\ unit = "none"
    /\ script = <<>>
    /\ log = <<>>
    /\ attempts = 0
    /\ status = 0

\* get_law_json is not followed on its own
IdleParse ==
    /\ markup = <<>>
    /\ returned = <<>>

\* get_law_urls is not followed on its own
IdleWalk ==
    /\ chain = <<>>
    /\ wpc = "none"
    /\ current_url = 0
    /\ all_links = <<>>
    /\ fetched = <<>>

\* no worker's random_delay is followed
IdleDelay ==
    /\ wstate = <<>>
    /\ drawn = <<>>
    /\ slept = <<>>

IdleExtra == IdleParse /\ IdleWalk /\ IdleDelay

(***************************************************************************)
(* Bounds                                                                  *)
(***************************************************************************)
MaxItems == 4
MaxBatch == 3
MaxWorkers == 2
MaxCrawlItems == 2
MaxTitleLen == 2
MaxArticles == 1
MaxSeed == 1

Min(a, b) == IF a < b THEN a ELSE b

N == Len(urls)

Items == 1..N

(***************************************************************************)
(* process_batch: the driver                                               *)
(***************************************************************************)

\* urls[i:i+batch_size], as 1-based positions
BatchLo(start) == start + 1

BatchHiWhole(start) == N

BatchHi(start) == Min(start + config.batch_size, N)

Batch(start) == BatchLo(start)..BatchHi(start)

\* range(0, len(urls), batch_size): the next value of i
NextStartSkip(start) == start + config.batch_size + 1

NextStart(start) == start + config.batch_size

\* 0-based number of the batch an item belongs to
BatchOf(k) == (k - 1) \div config.batch_size

Running == {k \in Items : fut[k] \in {"running", "saving", "writing"}}

Outstanding == {k \in Items : fut[k] \in {"queued", "running", "saving", "writing"}}

\* ThreadPoolExecutor(max_workers): a thread is free for the next queued item
WorkerFreeAlways == TRUE

WorkerFree == Cardinality(Running) < config.max_workers

\* the process has not been terminated: its threads run
Alive == pc # "killed"

\* if result: processed_count += 1 (an exception is logged, not counted)
CountAllReturned(count, res) == IF res \in {"true", "false"} THEN count + 1 ELSE count

CountRaisedToo(count, res) == IF res \in {"true", "raised"} THEN count + 1 ELSE count

CountResult(count, res) == IF res = "true" THEN count + 1 ELSE count

\* pbar.update(1), after the try block of each future
ProgressOnlyReturned(n, res) == IF res = "raised" THEN n ELSE n + 1

ProgressAfter(n, res) == n + 1

\* for future in as_completed(futures) ends, and the executor's with block
\* exits (shutdown(wait=True)): every future of the batch has been handled
BatchDoneEarly(start) == TRUE

BatchDone(start) == \A k \in Batch(start) : collected[k]

LoopEnter ==
    /\ UNCHANGED outerVars
    /\ pc = "loop"
    /\ i < N
    /\ pc' = "submit"
    /\ submitted' = 0
    /\ UNCHANGED <<config, src, urls, hashseed, i, fut, result, collected, calls,
                   processed_count, progress>>
    /\ UNCHANGED crawlVars

Return ==
    /\ UNCHANGED outerVars
    /\ pc = "loop"
    /\ i >= N
    /\ pc' = "done"
    /\ UNCHANGED <<config, src, urls, hashseed, i, submitted, fut, result, collected,
                   calls, processed_count, progress>>
    /\ UNCHANGED crawlVars

\* executor.submit(process_func, url), one url of the batch after the other
Submit ==
    /\ UNCHANGED outerVars
    /\ pc = "submit"
    /\ LET k == i + submitted + 1 IN
        /\ k <= BatchHi(i)
        /\ fut' = [fut EXCEPT ![k] = "queued"]
        /\ submitted' = submitted + 1
        /\ pc' = IF k = BatchHi(i) THEN "collect" ELSE "submit"
    /\ UNCHANGED <<config, src, urls, hashseed, i, result, collected, calls,
                   processed_count, progress>>
    /\ UNCHANGED crawlVars

\* one iteration of "for future in as_completed(futures)"
Collect ==
    /\ UNCHANGED outerVars
    /\ pc = "collect"
    /\ \E k \in Batch(i) :
        /\ fut[k] = "finished"
        /\ ~collected[k]
        /\ collected' = [collected EXCEPT ![k] = TRUE]
        /\ processed_count' = CountResult(processed_count, result[k])
        /\ progress' = ProgressAfter(progress, result[k])
    /\ UNCHANGED <<config, src, urls, hashseed, pc, i, submitted, fut, result, calls>>
    /\ UNCHANGED crawlVars

ExitExecutor ==
    /\ UNCHANGED outerVars
    /\ pc = "collect"
    /\ BatchDone(i)
    /\ i' = NextStart(i)
    /\ pc' = "loop"
    /\ UNCHANGED <<config, src, urls, hashseed, submitted, fut, result, collected,
                   calls, processed_count, progress>>
    /\ UNCHANGED crawlVars

(***************************************************************************)
(* The pool's workers                                                      *)
(***************************************************************************)

\* a pool thread takes the oldest queued work item and calls process_func
StartWorker ==
    /\ UNCHANGED outerVars
    /\ Alive
    /\ WorkerFree
    /\ \E k \in Items :
        /\ fut[k] = "queued"
        /\ \A j \in Items : fut[j] = "queued" => k <= j
        /\ fut' = [fut EXCEPT ![k] = "running"]
        /\ calls' = [calls EXCEPT ![k] = @ + 1]
    /\ UNCHANGED <<config, src, urls, hashseed, pc, i, submitted, result, collected,
                   processed_count, progress>>
    /\ UNCHANGED crawlVars

\* what the future of a bare process_func holds once the call ends
FuncResult(item) ==
    CASE item.outcome = "truthy" -> "true"
      [] item.outcome = "falsy" -> "false"
      [] OTHER -> "raised"

RunFunc ==
    /\ UNCHANGED outerVars
    /\ Alive
    /\ \E k \in Items :
        /\ fut[k] = "running"
        /\ fut' = [fut EXCEPT ![k] = "finished"]
        /\ result' = [result EXCEPT ![k] = FuncResult(urls[k])]
    /\ UNCHANGED <<config, src, urls, hashseed, pc, i, submitted, collected, calls,
                   processed_count, progress>>
    /\ UNCHANGED crawlVars

(***************************************************************************)
(* Spec: process_batch over a bare process_func                            *)
(***************************************************************************)
Outcomes == {"truthy", "falsy", "raise"}

FuncItems == [outcome : Outcomes]

SeqsUpTo(S, n) == UNION {[1..m -> S] : m \in 0..n}

Configs == [batch_size : 1..MaxBatch, max_workers : 1..MaxWorkers]

InitDriver ==
    /\ pc = "loop"
    /\ i = 0
    /\ submitted = 0
    /\ fut = [k \in Items |-> "new"]
    /\ result = [k \in Items |-> "none"]
    /\ collected = [k \in Items |-> FALSE]
    /\ calls = [k \in Items |-> 0]
    /\ saves = [k \in Items |-> 0]
    /\ offset = [k \in Items |-> 0]
    /\ processed_count = 0
    /\ progress = 0

Init ==
    /\ config \in Configs
    /\ src = "func"
    /\ urls \in SeqsUpTo(FuncItems, MaxItems)
    /\ hashseed = 0
    /\ dirExists = FALSE
    /\ files = <<>>
    /\ InitDriver
    /\ IdleMain
    /\ IdleNet
    /\ IdleExtra

Next ==
    \/ LoopEnter
    \/ Submit
    \/ StartWorker
    \/ RunFunc
    \/ Collect
    \/ ExitExecutor
    \/ Return

Spec == Init /\ [][Next]_vars

(***************************************************************************)
(* Titles, records and the JSON text of a record                           *)
(***************************************************************************)

\* the characters a title is made of: a letter, a path separator, a space
Alphabet == {"a", "/", " "}

\* str.isalnum()
IsAlnum(c) == c = "a"

RECURSIVE LStrip(_)
LStrip(s) == IF s # <<>> /\ Head(s) = " " THEN LStrip(Tail(s)) ELSE s

RECURSIVE RStrip(_)
RStrip(s) ==
    IF s # <<>> /\ s[Len(s)] = " " THEN RStrip(SubSeq(s, 1, Len(s) - 1)) ELSE s

\* str.strip()
Strip(s) == RStrip(LStrip(s))

\* every title the crawlers read is the strip() of an element's text
Titles == {s \in SeqsUpTo(Alphabet, MaxTitleLen) : Strip(s) = s}

\* select_one found no element
NoElem == <<"none">>

\* _get_text(element)
GetText(e) == IF e = NoElem THEN <<>> ELSE e

\* get_law_json returned None
None == [ok |-> FALSE, LawName |-> <<>>, LawArticles |-> 0]

Record(name, arts) == [ok |-> TRUE, LawName |-> name, LawArticles |-> arts]

Digit(n) == <<"0", "1", "2", "3", "4", "5", "6", "7", "8", "9">>[n + 1]

RECURSIVE DigitsOf(_)
DigitsOf(n) == IF n < 10 THEN <<Digit(n)>> ELSE DigitsOf(n \div 10) \o <<Digit(n % 10)>>

Tok(kind, v) == [k |-> kind, v |-> v]

\* a position of the file no write has filled (a hole after a truncation)
Pad == Tok("nul", <<>>)

\* json.dump(data, f, ensure_ascii=False, indent=2): the text of the document
Encode(rec) ==
    <<Tok("{", <<>>), Tok("LawName", rec.LawName)>>
    \o [a \in 1..rec.LawArticles |-> Tok("Article", DigitsOf(a))]
    \o <<Tok("}", <<>>)>>

\* json.load of a file's text: the record, or None for text that is no
\* complete document
Decode(text) ==
    IF /\ Len(text) >= 3
       /\ text[1] = Tok("{", <<>>)
       /\ text[2].k = "LawName"
       /\ text[Len(text)] = Tok("}", <<>>)
       /\ \A a \in 1..(Len(text) - 3) : text[a + 2] = Tok("Article", DigitsOf(a))
    THEN Record(text[2].v, Len(text) - 3)
    ELSE None

(***************************************************************************)
(* get_law_json of the six sources. A page is what the site answers for    *)
(* one work item:                                                          *)
(*   listed  the name the listing gave (law_info['name'] / ['title'])      *)
(*   shown   the text of the name element of the detail page, or NoElem    *)
(*   arts    the article rows of the (first) content page                  *)
(*   alt     the article rows of New Taipei's FLAWDAT0201 page             *)
(*   net     "ok", or which request raises: "fail1" the first, "fail2"     *)
(*           the second                                                    *)
(*   disk    FALSE when open() meets a persistence fault                   *)
(***************************************************************************)
Sources == {"central", "taipei", "new_taipei", "taichung", "taoyuan", "kaohsiung"}

Pages(s) ==
    CASE s = "central" ->
           [listed : {<<>>}, shown : Titles \cup {NoElem}, arts : 0..MaxArticles,
            alt : {0}, net : {"ok", "fail1"}, disk : BOOLEAN]
      [] s = "taipei" ->
           [listed : {<<>>}, shown : Titles \cup {NoElem}, arts : 0..MaxArticles,
            alt : {0}, net : {"ok", "fail1", "fail2"}, disk : BOOLEAN]
      [] s = "new_taipei" ->
           [listed : Titles, shown : {NoElem}, arts : 0..MaxArticles,
            alt : 0..MaxArticles, net : {"ok", "fail1", "fail2"}, disk : BOOLEAN]
      [] OTHER ->
           [listed : Titles, shown : Titles \cup {NoElem}, arts : 0..MaxArticles,
            alt : {0}, net : {"ok", "fail1"}, disk : BOOLEAN]

\* CentralLawCrawler.get_law_json: the name is the first non-empty selector
\* text; without a name the result is None
CentralGetLawJson(p) ==
    IF p.net = "fail1" THEN None
    ELSE LET law_name == GetText(p.shown) IN
         IF law_name = <<>> THEN None ELSE Record(law_name, p.arts)

\* TaipeiLawCrawler.get_law_json: the information page, then the content page
TaipeiGetLawJson(p) ==
    IF p.net \in {"fail1", "fail2"} THEN None
    ELSE LET law_name == GetText(p.shown) IN
         IF law_name = <<>> THEN None ELSE Record(law_name, p.arts)

\* NewTaipeiLawCrawler.try_get_content: data only when article rows were found
TryGetContentAnyPage(failed, law_info_title, rows) ==
    IF failed THEN None ELSE Record(law_info_title, rows)

TryGetContent(failed, law_info_title, rows) ==
    IF failed THEN None
    ELSE IF rows = 0 THEN None ELSE Record(law_info_title, rows)

\* NewTaipeiLawCrawler.get_law_json: FLAWDAT0202, then FLAWDAT0201
NewTaipeiGetLawJson(p) ==
    LET content == TryGetContent(p.net = "fail1", p.listed, p.arts) IN
    IF content.ok THEN content
    ELSE TryGetContent(p.net = "fail2", p.listed, p.alt)

\* Taichung, Taoyuan, Kaohsiung get_law_json: the listing's name, replaced
\* by the information table's name cell when the page has one
TableGetLawJson(p) ==
    IF p.net = "fail1" THEN None
    ELSE Record(IF p.shown = NoElem THEN p.listed ELSE p.shown, p.arts)

GetLawJson(s, p) ==
    CASE s = "central" -> CentralGetLawJson(p)
      [] s = "taipei" -> TaipeiGetLawJson(p)
      [] s = "new_taipei" -> NewTaipeiGetLawJson(p)
      [] OTHER -> TableGetLawJson(p)

(***************************************************************************)
(* process_law: the save guard and the file name                           *)
(***************************************************************************)

\* if law_data and law_data["LawName"]
ProcessLawSavesAnyRecord(law_data) == law_data.ok

ProcessLawSaves(law_data) == law_data.ok /\ law_data.LawName # <<>>

KeepChar(c) == IsAlnum(c) \/ c \in {" ", "_", "-"}

\* "".join([c for c in name if c.isalnum() or c in ' _-']).strip()
SafeFilename(name) == Strip(SelectSeq(name, KeepChar))

Code(c) == CASE c = "a" -> 97 [] c = "/" -> 47 [] c = " " -> 32 [] OTHER -> 0

HashMod == 10000

RECURSIVE PyHash(_, _)
\* hash(str): a value fixed by the string and the process's hash seed
PyHash(name, seed) ==
    IF name = <<>> THEN 7919 * seed
    ELSE 31 * PyHash(SubSeq(name, 1, Len(name) - 1), seed) + Code(name[Len(name)])

\* f"law_{hash(name) % 10000}"
Fallback(name, seed) == <<"law_">> \o DigitsOf(PyHash(name, seed) % HashMod)

Sanitizes(s) == s \in {"taoyuan", "kaohsiung"}

\* the filename process_law hands to save_json
Filename(s, name, seed) ==
    IF Sanitizes(s)
    THEN LET safe_filename == SafeFilename(name) IN
         (IF safe_filename = <<>> THEN Fallback(name, seed) ELSE safe_filename)
         \o <<".json">>
    ELSE name \o <<".json">>

LawData(k) == GetLawJson(src, urls[k])

FilenameOf(k) == Filename(src, LawData(k).LawName, hashseed)

(***************************************************************************)
(* save_json: the path, open, the buffered writes, close                   *)
(***************************************************************************)
HasSep(f) == \E x \in 1..Len(f) : f[x] = "/"

LastSep(f) == CHOOSE x \in 1..Len(f) : f[x] = "/" /\ \A y \in (x + 1)..Len(f) : f[y] # "/"

\* os.path.join(output_dir, filename) as open() resolves it: a file of the
\* output directory, a file of the root directory (an absolute filename), or
\* a path through a directory that does not exist
ResolvePath(f) ==
    IF ~HasSep(f) THEN [dir |-> "out", name |-> f]
    ELSE LET x == LastSep(f)
             base == SubSeq(f, x + 1, Len(f))
         IN IF \A y \in 1..x : f[y] = "/"
            THEN [dir |-> "root", name |-> base]
            ELSE [dir |-> "missing", name |-> base]

PathOf(k) == ResolvePath(FilenameOf(k))

\* tokens one flush of the file buffer carries
FlushTokens == 2

\* open(filepath, 'w') leaves the file empty
OpenContentAppend(old) == old

OpenContent(old) == <<>>

Max(a, b) == IF a > b THEN a ELSE b

\* write(chunk) at the handle's position
WriteAt(text, off, chunk) ==
    [x \in 1..Max(Len(text), off + Len(chunk)) |->
        IF x > off /\ x <= off + Len(chunk) THEN chunk[x - off]
        ELSE IF x <= Len(text) THEN text[x]
        ELSE Pad]

Doc(k) == Encode(LawData(k))

Existing(path) == path \in DOMAIN files

\* the worker of item k: get_law_json and the save guard of process_law
Extract ==
    /\ UNCHANGED outerVars
    /\ Alive
    /\ \E k \in Items :
        /\ fut[k] = "running"
        /\ IF ProcessLawSaves(LawData(k))
           THEN /\ fut' = [fut EXCEPT ![k] = "saving"]
                /\ UNCHANGED result
           ELSE /\ fut' = [fut EXCEPT ![k] = "finished"]
                /\ result' = [result EXCEPT ![k] = "false"]
    /\ UNCHANGED <<config, src, urls, hashseed, pc, i, submitted, collected, calls,
                   processed_count, progress>>
    /\ UNCHANGED crawlVars

\* save_json up to open(): makedirs, join, open for writing
SaveOpen ==
    /\ UNCHANGED outerVars
    /\ Alive
    /\ \E k \in Items :
        /\ fut[k] = "saving"
        /\ saves' = [saves EXCEPT ![k] = @ + 1]
        /\ dirExists' = TRUE
        /\ \E permitted \in BOOLEAN :
            LET path == PathOf(k)
                opens == /\ urls[k].disk
                         /\ path.dir # "missing"
                         /\ (path.dir = "root" => permitted)
            IN IF opens
               THEN /\ files' = [q \in DOMAIN files \cup {path} |->
                                   IF q = path
                                   THEN OpenContent(IF Existing(path) THEN files[path] ELSE <<>>)
                                   ELSE files[q]]
                    /\ offset' = [offset EXCEPT ![k] = 0]
                    /\ fut' = [fut EXCEPT ![k] = "writing"]
                    /\ UNCHANGED result
               ELSE /\ fut' = [fut EXCEPT ![k] = "finished"]
                    /\ result' = [result EXCEPT ![k] = "raised"]
                    /\ UNCHANGED <<files, offset>>
    /\ UNCHANGED <<config, src, urls, hashseed, pc, i, submitted, collected, calls,
                   processed_count, progress>>

\* json.dump fills the buffer, which is written out when full
DumpFlush ==
    /\ UNCHANGED outerVars
    /\ Alive
    /\ \E k \in Items :
        /\ fut[k] = "writing"
        /\ Len(Doc(k)) - offset[k] > FlushTokens
        /\ files' = [files EXCEPT ![PathOf(k)] =
                        WriteAt(@, offset[k],
                                SubSeq(Doc(k), offset[k] + 1, offset[k] + FlushTokens))]
        /\ offset' = [offset EXCEPT ![k] = @ + FlushTokens]
    /\ UNCHANGED <<config, src, urls, hashseed, pc, i, submitted, fut, result, collected,
                   calls, saves, processed_count, progress, dirExists>>

\* the with block closes the file: the rest of the buffer is written, save_json
\* returns and process_law returns True
CloseFlush ==
    /\ UNCHANGED outerVars
    /\ Alive
    /\ \E k \in Items :
        /\ fut[k] = "writing"
        /\ Len(Doc(k)) - offset[k] <= FlushTokens
        /\ files' = [files EXCEPT ![PathOf(k)] =
                        WriteAt(@, offset[k], SubSeq(Doc(k), offset[k] + 1, Len(Doc(k))))]
        /\ offset' = [offset EXCEPT ![k] = Len(Doc(k))]
        /\ fut' = [fut EXCEPT ![k] = "finished"]
        /\ result' = [result EXCEPT ![k] = "true"]
    /\ UNCHANGED <<config, src, urls, hashseed, pc, i, submitted, collected, calls,
                   saves, processed_count, progress, dirExists>>

\* the process is terminated: its threads end where they are, the files stay
Terminate ==
    /\ UNCHANGED outerVars
    /\ pc \in {"loop", "submit", "collect"}
    /\ pc' = "killed"
    /\ fut' = [k \in Items |-> IF fut[k] = "finished" THEN "finished" ELSE "dead"]
    /\ UNCHANGED <<config, src, urls, hashseed, i, submitted, result, collected, calls,
                   saves, processed_count, progress, dirExists, files, offset>>

NextCrawl ==
    \/ LoopEnter
    \/ Submit
    \/ StartWorker
    \/ Extract
    \/ SaveOpen
    \/ DumpFlush
    \/ CloseFlush
    \/ Collect
    \/ ExitExecutor
    \/ Return
    \/ Terminate

\* the pages of the concurrent runs: reachable, writable, one listed name
CrawlPages(s) ==
    {p \in Pages(s) : /\ p.disk
                      /\ p.net = "ok"
                      /\ p.alt = 0
                      /\ p.listed \in {<<>>, <<"a">>}
                      /\ p.shown \in {NoElem, <<"a">>}}

SeqsFrom(S, lo, hi) == UNION {[1..m -> S] : m \in lo..hi}

\* SpecCrawl: a crawler's run of process_batch(law_urls, self.process_law)
InitCrawl ==
    /\ config \in Configs
    /\ src \in Sources
    /\ urls \in SeqsFrom(CrawlPages(src), 1, MaxCrawlItems)
    /\ hashseed = 0
    /\ dirExists = FALSE
    /\ files = <<>>
    /\ InitDriver
    /\ IdleMain
    /\ IdleNet
    /\ IdleExtra

SpecCrawl == InitCrawl /\ [][NextCrawl]_vars

\* SpecSeq: the same run with a pool of one worker, so that the save_json
\* calls follow one another
InitSeq ==
    /\ config \in {c \in Configs : c.max_workers = 1}
    /\ src \in Sources
    /\ urls \in SeqsFrom(CrawlPages(src), 1, MaxCrawlItems)
    /\ hashseed = 0
    /\ dirExists \in BOOLEAN
    /\ files = <<>>
    /\ InitDriver
    /\ IdleMain
    /\ IdleNet
    /\ IdleExtra

SpecSeq == InitSeq /\ [][NextCrawl]_vars

\* SpecLaw: process_law on one work item, for every page of every source
InitLaw ==
    /\ config = [batch_size |-> 1, max_workers |-> 1]
    /\ src \in Sources
    /\ urls \in SeqsFrom(Pages(src), 1, 1)
    /\ hashseed \in 0..MaxSeed
    /\ dirExists \in BOOLEAN
    /\ files = <<>>
    /\ InitDriver
    /\ IdleMain
    /\ IdleNet
    /\ IdleExtra

SpecLaw == InitLaw /\ [][NextCrawl]_vars

(***************************************************************************)
(* Claims about process_batch (checked under Spec)                         *)
(***************************************************************************)

\* C1: process_batch invokes process_func exactly once for each item: never
\* twice at any time, and exactly once each (N invocations in total) when
\* process_batch returns, whichever invocations return falsy or raise.
C1_EachItemInvokedOnce ==
    /\ \A k \in Items : calls[k] <= 1
    /\ pc = "done" => \A k \in Items : calls[k] = 1

C1_Witness ==
    /\ pc = "done"
    /\ N = 3
    /\ config.batch_size = 2
    /\ urls[1].outcome = "raise"
    /\ urls[2].outcome = "falsy"
    /\ \A k \in Items : calls[k] = 1

\* C2: the returned count is the number of items whose call returned a
\* truthy value; a raising or falsy call is not counted, and every item of
\* the same and of later batches is still processed and handled.
C2_CountIsTruthyResults ==
    /\ processed_count = Cardinality({k \in Items : collected[k] /\ result[k] = "true"})
    /\ pc = "done" =>
        /\ \A k \in Items : collected[k] /\ result[k] = FuncResult(urls[k])
        /\ processed_count = Cardinality({k \in Items : urls[k].outcome = "truthy"})

C2_Witness ==
    /\ pc = "done"
    /\ N = 3
    /\ config.batch_size = 2
    /\ urls[1].outcome = "raise"
    /\ urls[2].outcome = "truthy"
    /\ urls[3].outcome = "truthy"
    /\ processed_count = 2

\* C3: no process_func call for an item of a later batch has started while
\* a call of an earlier batch has not finished.
C3_BatchesInSequence ==
    \A a \in Items : \A b \in Items :
        (BatchOf(a) < BatchOf(b) /\ calls[b] > 0) => fut[a] = "finished"

C3_Witness ==
    \E b \in Items :
        /\ BatchOf(b) >= 1
        /\ fut[b] = "running"
        /\ config.batch_size = 2
        /\ config.max_workers = 2

\* C4: the items submitted and not yet finished number at most batch_size,
\* whatever max_workers is.
C4_OutstandingAtMostBatchSize ==
    Cardinality(Outstanding) <= config.batch_size

C4_Witness ==
    /\ Cardinality(Outstanding) = config.batch_size
    /\ config.batch_size = 2
    /\ config.max_workers = 1
    /\ i > 0

\* C5: at most max_workers process_func calls execute at the same time; the
\* rest of the batch stays queued until a worker is free.
C5_RunningAtMostMaxWorkers ==
    /\ Cardinality(Running) <= config.max_workers
    /\ \A k \in Items : fut[k] = "queued" => k \in Batch(i)

C5_Witness ==
    /\ Cardinality(Running) = config.max_workers
    /\ config.max_workers < config.batch_size
    /\ \E k \in Items : fut[k] = "queued"

(***************************************************************************)
(* Claims about process_law and save_json                                  *)
(***************************************************************************)

\* get_law_json returned a record that carries a title
Titled(k) == LawData(k).ok /\ LawData(k).LawName # <<>>

\* the file of item k is on disk
FileOf(k) == Existing(PathOf(k))

\* C6 as stated: once process_law has ended for an item, a file was written
\* for it and the result is True exactly when extraction produced a non-empty
\* title; otherwise there is no file and the result is False.
C6_FileIffTitle ==
    \A k \in Items :
        fut[k] = "finished" =>
            /\ Titled(k) => (result[k] = "true" /\ FileOf(k))
            /\ ~Titled(k) => (result[k] = "false" /\ files = <<>>)

\* C6 amended: process_law calls save_json exactly for a record with a
\* non-empty LawName; it returns True exactly when that save_json call
\* returned, and then the file holds the record; a save_json that raises
\* (a persistence fault, a filename open() cannot create) leaves the call
\* raised; without a titled record there is no file, False and no exception.
C6_SaveIffTitledRecord ==
    \A k \in Items :
        /\ saves[k] <= 1
        /\ fut[k] = "finished" =>
            /\ (saves[k] = 1) <=> Titled(k)
            /\ result[k] = "true" =>
                (Titled(k) /\ FileOf(k) /\ Decode(files[PathOf(k)]) = LawData(k))
            /\ (Titled(k) /\ urls[k].disk /\ ~HasSep(FilenameOf(k))) => result[k] = "true"
            /\ result[k] = "raised" => (Titled(k) /\ files = <<>>)
            /\ ~Titled(k) => (result[k] = "false" /\ files = <<>>)

C6_Witness ==
    /\ pc = "done"
    /\ src = "new_taipei"
    /\ urls[1].arts = 0
    /\ urls[1].alt > 0
    /\ urls[1].listed = <<"a">>
    /\ result[1] = "true"
    /\ files[PathOf(1)] = Doc(1)

\* C7 as stated: after the process is terminated, every file of the run is
\* the complete document of an item saved to it (its previous content or
\* the new one), never an empty or truncated text.
C7_NoPartialFile ==
    pc = "killed" =>
        \A path \in DOMAIN files :
            \E k \in Items : saves[k] > 0 /\ PathOf(k) = path /\ files[path] = Doc(k)

\* C8 as stated: when two items of one batch derive the same filename and
\* both save_json calls have returned, the file holds the complete document
\* of one of the two.
C8_LastWriteWins ==
    \A a \in Items : \A b \in Items :
        (/\ a # b
         /\ BatchOf(a) = BatchOf(b)
         /\ result[a] = "true"
         /\ result[b] = "true"
         /\ PathOf(a) = PathOf(b))
        => files[PathOf(a)] \in {Doc(a), Doc(b)}

\* save_json of item k has opened the file and not yet returned
InSave(k) == saves[k] > 0 /\ result[k] = "none"

\* C9: save_json creates the output directory; with the calls in sequence,
\* a file no call is writing decodes to the record of the last call that
\* returned for its name (so a second save of the same name replaces the
\* first), and the files are exactly those of the names opened.
C9_SaveRoundTrip ==
    /\ (\E k \in Items : saves[k] > 0) => dirExists
    /\ DOMAIN files = {PathOf(k) : k \in {j \in Items : saves[j] > 0 /\ result[j] # "raised"}}
    /\ \A path \in DOMAIN files :
        (\A k \in Items : PathOf(k) = path => ~InSave(k)) =>
            \E k \in Items :
                /\ result[k] = "true"
                /\ PathOf(k) = path
                /\ \A j \in Items : (result[j] = "true" /\ PathOf(j) = path) => j <= k
                /\ Decode(files[path]) = LawData(k)

C9_Witness ==
    /\ pc = "done"
    /\ N = 2
    /\ result[1] = "true"
    /\ result[2] = "true"
    /\ PathOf(1) = PathOf(2)
    /\ Len(Doc(2)) < Len(Doc(1))
    /\ Cardinality(DOMAIN files) = 1
    /\ Decode(files[PathOf(2)]) = LawData(2)

\* C10 as stated: the filename process_law passes to save_json holds no path
\* separator and has a non-empty stem, and every file written lies directly
\* in the output directory, for every source.
C10_FilenameSanitized ==
    /\ \A k \in Items :
        saves[k] > 0 => (~HasSep(FilenameOf(k)) /\ FilenameOf(k) # <<".json">>)
    /\ \A path \in DOMAIN files : path.dir = "out"

(***************************************************************************)
(* Claims about the fallback filename and the pages without markup         *)
(* (checked under SpecLaw)                                                 *)
(***************************************************************************)

\* C11 as stated: when sanitization leaves nothing of the title, the
\* fallback filename a sanitizing source passes to save_json is the one every
\* other run of the program derives from the same title, whatever that run's
\* string-hash seed.
C11_FallbackDeterministic ==
    \A k \in Items :
        (/\ saves[k] > 0
         /\ Sanitizes(src)
         /\ SafeFilename(LawData(k).LawName) = <<>>)
        => \A seed \in 0..MaxSeed :
               FilenameOf(k) = Filename(src, LawData(k).LawName, seed)

\* C16 as stated: an item whose detail page has neither the title element /
\* information table nor the article table is skipped by every source:
\* process_law returns False for it and no file is written.
C16_NoMarkupSkipped ==
    \A k \in Items :
        (/\ fut[k] = "finished"
         /\ urls[k].net = "ok"
         /\ urls[k].disk
         /\ urls[k].shown = NoElem
         /\ urls[k].arts = 0
         /\ urls[k].alt = 0)
        => (result[k] = "false" /\ saves[k] = 0 /\ files = <<>>)

(***************************************************************************)
(* SpecFault: a crawler's run of process_batch over items of which some    *)
(* cannot be fetched and some cannot be saved                              *)
(***************************************************************************)

\* one titled page per source, met in three ways: fetched and saved, fetched
\* with a persistence fault at open(), or a request that raises
FaultPages(s) ==
    {p \in Pages(s) : /\ p.listed = (IF s \in {"central", "taipei"} THEN <<>> ELSE <<"a">>)
                      /\ p.shown = (IF s = "new_taipei" THEN NoElem ELSE <<"a">>)
                      /\ p.arts = 1
                      /\ p.alt = 0
                      /\ p.net \in {"ok", "fail1"}
                      /\ (p.net = "fail1" => p.disk)}

InitFault ==
    /\ config \in Configs
    /\ src \in Sources
    /\ urls \in SeqsFrom(FaultPages(src), 1, MaxCrawlItems)
    /\ hashseed = 0
    /\ dirExists = FALSE
    /\ files = <<>>
    /\ InitDriver
    /\ IdleMain
    /\ IdleNet
    /\ IdleExtra

SpecFault == InitFault /\ [][NextCrawl]_vars

\* C17: an exception of save_json is not caught in process_law: the future
\* of that item holds it. process_batch catches it for that item alone: when
\* it returns every item was invoked once and collected, the count is the
\* number of items that were fetched and saved, and the files are those of
\* these items.
C17_SaveFaultIsolated ==
    /\ \A k \in Items :
        (fut[k] = "finished" /\ Titled(k) /\ ~urls[k].disk)
        => (result[k] = "raised" /\ saves[k] = 1)
    /\ pc = "done" =>
        /\ \A k \in Items : calls[k] = 1 /\ collected[k]
        /\ DOMAIN files = {PathOf(k) : k \in {j \in Items : Titled(j) /\ urls[j].disk}}
        /\ processed_count = Cardinality({k \in Items : Titled(k) /\ urls[k].disk})
        /\ \A k \in Items :
            (Titled(k) /\ urls[k].disk) => (result[k] = "true" /\ FileOf(k))

C17_Witness ==
    /\ pc = "done"
    /\ N = 2
    /\ result[1] = "raised"
    /\ result[2] = "true"
    /\ processed_count = 1
    /\ FileOf(2)

\* a step of the run other than the end of the process
RunSteps ==
    \/ LoopEnter
    \/ Submit
    \/ StartWorker
    \/ Extract
    \/ SaveOpen
    \/ DumpFlush
    \/ CloseFlush
    \/ Collect
    \/ ExitExecutor
    \/ Return

MaxCats == 2
MaxLaws == 1

\* the number of hard-coded category links of CentralLawCrawler
EmergencyLinkCount == 4

\* the number of hard-coded law URLs of CentralLawCrawler
EmergencyUrlCount == 3

Chained(s) == s \in {"taoyuan", "kaohsiung"}

ListPages(chained) ==
    [fetch : BOOLEAN, laws : 0..MaxLaws, next : IF chained THEN BOOLEAN ELSE {FALSE}]

NoPage == [fetch |-> FALSE, laws |-> 0, next |-> FALSE]

Sites(s) ==
    {st \in [entry : BOOLEAN,
             cats : SeqsUpTo(ListPages(Chained(s)), MaxCats),
             emerg : IF s = "central" THEN ListPages(FALSE) ELSE {NoPage}] :
        \A j \in 1..Len(st.cats) : st.cats[j].next => j < Len(st.cats)}

\* a work item: found on page c of the site ("site"), on the hard-coded
\* category c ("emergency"), or itself hard-coded ("hard")
WorkItem(kind, c, n) == [kind |-> kind, c |-> c, n |-> n]

\* the law links of one category / listing page; [] when the request raises
LinksOf(kind, c, page) ==
    IF page.fetch THEN [n \in 1..page.laws |-> WorkItem(kind, c, n)] ELSE <<>>

\* CentralLawCrawler.get_category_links
CentralGetCategoryLinks(st) ==
    IF st.entry /\ st.cats # <<>>
    THEN [j \in 1..Len(st.cats) |-> [kind |-> "site", c |-> j]]
    ELSE [j \in 1..EmergencyLinkCount |-> [kind |-> "emergency", c |-> j]]

\* CentralLawCrawler.get_law_links
CentralGetLawLinks(st, link) ==
    LinksOf(link.kind, link.c, IF link.kind = "site" THEN st.cats[link.c] ELSE st.emerg)

\* the for loop of CentralLawCrawler.get_law_urls, which returns as soon as
\* all_law_urls is not empty
RECURSIVE CentralLoop(_, _, _, _)
CentralLoop(st, category_links, j, all_law_urls) ==
    IF j > Len(category_links) THEN all_law_urls
    ELSE LET all == all_law_urls \o CentralGetLawLinks(st, category_links[j]) IN
         IF Len(all) > 0 THEN all
         ELSE CentralLoop(st, category_links, j + 1, all)

EmergencyUrls == [n \in 1..EmergencyUrlCount |-> WorkItem("hard", 0, n)]

CentralGetLawUrls(st) ==
    LET category_links == CentralGetCategoryLinks(st) IN
    IF category_links = <<>> THEN <<>>
    ELSE LET all_law_urls == CentralLoop(st, category_links, 1, <<>>) IN
         IF all_law_urls = <<>> THEN EmergencyUrls ELSE all_law_urls

\* the links of pages j..Len(cats), one page after the other; a page whose
\* request raises adds nothing
RECURSIVE AllPages(_, _)
AllPages(st, j) ==
    IF j > Len(st.cats) THEN <<>>
    ELSE LinksOf("site", j, st.cats[j]) \o AllPages(st, j + 1)

\* TaipeiLawCrawler.get_law_urls: total_pages == 0 returns []
TaipeiGetLawUrls(st) ==
    LET total_pages == IF st.entry THEN Len(st.cats) ELSE 0 IN
    IF total_pages = 0 THEN <<>> ELSE AllPages(st, 1)

\* NewTaipeiLawCrawler.get_law_urls and TaichungLawCrawler.get_law_urls
CategoryGetLawUrls(st) == IF st.entry THEN AllPages(st, 1) ELSE <<>>

\* the while loop of Taoyuan / Kaohsiung get_law_urls: follow next_url
RECURSIVE FollowNext(_, _)
FollowNext(st, j) ==
    IF j > Len(st.cats) THEN <<>>
    ELSE LET page == st.cats[j]
             next_url == page.fetch /\ page.next
         IN LinksOf("site", j, page) \o (IF next_url THEN FollowNext(st, j + 1) ELSE <<>>)

\* TaoyuanLawCrawler.get_law_urls and KaohsiungLawCrawler.get_law_urls
ChainGetLawUrls(st) == IF st.entry THEN FollowNext(st, 1) ELSE <<>>

GetLawUrls(s, st) ==
    CASE s = "central" -> CentralGetLawUrls(st)
      [] s = "taipei" -> TaipeiGetLawUrls(st)
      [] Chained(s) -> ChainGetLawUrls(st)
      [] OTHER -> CategoryGetLawUrls(st)

(***************************************************************************)
(* main(): the six crawlers one after the other                            *)
(***************************************************************************)
SourceOrder == <<"central", "taipei", "new_taipei", "taichung", "taoyuan", "kaohsiung">>

\* the choices of --source
Choices == Sources \cup {"all"}

\* if args.source in [name, 'all']
SelectedOnlyNamed(choice, s) == choice = s

Selected(choice, s) == choice \in {s, "all"}

\* run(): "if not law_urls: return" before process_batch
RunCallsBatch(law_urls) == law_urls # <<>>

\* the block of a source that was not chosen
SkipSource ==
    /\ mpc \in 1..Len(SourceOrder)
    /\ ~Selected(source, SourceOrder[mpc])
    /\ mpc' = mpc + 1
    /\ UNCHANGED <<source, site, started, handed>>
    /\ UNCHANGED <<driverVars, netVars, extraVars>>

\* the block of a chosen source: the crawler is built and run() is called,
\* which discovers the work items and hands them to process_batch
RunSource ==
    /\ mpc \in 1..Len(SourceOrder)
    /\ Selected(source, SourceOrder[mpc])
    /\ LET s == SourceOrder[mpc]
           law_urls == GetLawUrls(s, site[s])
       IN /\ started' = Append(started, s)
          /\ handed' = [handed EXCEPT ![s] =
                           [called |-> RunCallsBatch(law_urls), urls |-> law_urls]]
    /\ mpc' = mpc + 1
    /\ UNCHANGED <<source, site>>
    /\ UNCHANGED <<driverVars, netVars, extraVars>>

NextMain == SkipSource \/ RunSource

\* process_batch is not running
IdleDriver ==
    /\ config = [batch_size |-> 1, max_workers |-> 1]
    /\ src = "func"
    /\ urls = <<>>
    /\ hashseed = 0
    /\ dirExists = FALSE
    /\ files = <<>>
    /\ InitDriver

DownSite == [entry |-> FALSE, cats |-> <<>>, emerg |-> NoPage]

EmptySite == [entry |-> TRUE, cats |-> <<>>, emerg |-> NoPage]

OneLawSite ==
    [entry |-> TRUE, cats |-> <<[fetch |-> TRUE, laws |-> 1, next |-> FALSE]>>,
     emerg |-> NoPage]

\* SpecMain: one source with any of its sites, or all six sources, each
\* down, empty or with one law
InitMain ==
    /\ source \in Choices
    /\ site \in IF source = "all"
                THEN [Sources -> {DownSite, EmptySite, OneLawSite}]
                ELSE {[s \in Sources |-> IF s = source THEN st ELSE DownSite] :
                         st \in Sites(source)}
    /\ mpc = 1
    /\ started = <<>>
    /\ handed = [s \in Sources |-> [called |-> FALSE, urls |-> <<>>]]
    /\ IdleDriver
    /\ IdleNet
    /\ IdleExtra

SpecMain == InitMain /\ [][NextMain]_vars

(***************************************************************************)
(* Claims about listing discovery and main() (checked under SpecMain)      *)
(***************************************************************************)

\* no listing page of the site yields a law link
NothingListed(st) ==
    \/ ~st.entry
    \/ \A j \in 1..Len(st.cats) : ~st.cats[j].fetch \/ st.cats[j].laws = 0

\* C12 as stated: when the listing of a source is unreachable or empty, its
\* get_law_urls yields no work item and run() returns without calling
\* process_batch; and no work item handed to process_batch is hard-coded or
\* taken from a hard-coded category. This holds for every source.
C12_NoItemsWhenDiscoveryFails ==
    \A j \in 1..Len(started) :
        LET s == started[j] IN
        /\ NothingListed(site[s]) => (~handed[s].called /\ handed[s].urls = <<>>)
        /\ \A n \in 1..Len(handed[s].urls) : handed[s].urls[n].kind = "site"

\* get_law_links over every category link, concatenated
RECURSIVE CentralAllLinks(_, _, _)
CentralAllLinks(st, category_links, j) ==
    IF j > Len(category_links) THEN <<>>
    ELSE CentralGetLawLinks(st, category_links[j])
             \o CentralAllLinks(st, category_links, j + 1)

\* the links of every category and listing page the source discovers
FullListing(s, st) ==
    CASE s = "central" -> CentralAllLinks(st, CentralGetCategoryLinks(st), 1)
      [] Chained(s) -> FollowNext(st, 1)
      [] OTHER -> AllPages(st, 1)

\* C13 as stated: when the entry page of a source answers and its pages
\* list laws, the list run() works on is the full list: the links of every
\* category and every listing page discovered, in order; for the central
\* source the concatenation of get_law_links over all category links.
C13_ReturnsFullList ==
    \A j \in 1..Len(started) :
        LET s == started[j]
            full == FullListing(s, site[s])
        IN (site[s].entry /\ site[s].cats # <<>> /\ full # <<>>) => handed[s].urls = full

\* the place of a source in main()
Pos(s) == CHOOSE j \in 1..Len(SourceOrder) : SourceOrder[j] = s

\* C20: main() starts the crawlers in the order central, taipei, new_taipei,
\* taichung, taoyuan, kaohsiung, none twice, and only chosen ones: with
\* --source all each of the six exactly once when main() ends, whether or
\* not an earlier source had an empty work-item list; with a single source
\* only that crawler.
C20_EachSourceOnceInOrder ==
    /\ \A a \in 1..Len(started) : \A b \in 1..Len(started) :
        a < b => Pos(started[a]) < Pos(started[b])
    /\ \A a \in 1..Len(started) : source \in {started[a], "all"}
    /\ \A s \in Sources :
        handed[s].called => \E a \in 1..Len(started) : started[a] = s
    /\ mpc = Len(SourceOrder) + 1 =>
        started = (IF source = "all" THEN SourceOrder ELSE <<source>>)

C20_Witness ==
    /\ mpc = Len(SourceOrder) + 1
    /\ source = "all"
    /\ started = SourceOrder
    /\ ~handed["taipei"].called
    /\ ~handed["taoyuan"].called
    /\ handed["kaohsiung"].called

(***************************************************************************)
(* The requests of one unit of work: the random_delay calls and the        *)
(* session.get calls that process_law (unit "item") or get_law_urls (unit  *)
(* "listing") makes, in program order, and the retries of the session's    *)
(* adapter (Retry(total, backoff_factor, status_forcelist))                *)
(***************************************************************************)

\* RETRY_CONFIG['total']
RetryTotal == 3

\* RETRY_CONFIG['status_forcelist']
StatusForcelist == {500, 502, 503, 504}

\* the statuses the site answers with
ServerStatuses == {200, 404, 500, 503}

\* self.random_delay()
Delay == [kind |-> "delay", to |-> "", timeout |-> FALSE, fails |-> FALSE]

\* self.session.get(to) or self.session.get(to, timeout=10); fails: the
\* request ends in an exception
Get(to, timeout, fails) == [kind |-> "get", to |-> to, timeout |-> timeout, fails |-> fails]

\* CentralLawCrawler.process_law -> get_law_json
CentralItemScript(p) == <<Delay, Get("law", TRUE, p.net = "fail1")>>

\* TaipeiLawCrawler.process_law -> get_law_json
TaipeiItemScript(p) ==
    <<Get("info", FALSE, p.net = "fail1")>>
        \o (IF p.net = "fail1" THEN <<>>
            ELSE <<Delay, Get("content", FALSE, p.net = "fail2")>>)

\* NewTaipeiLawCrawler.process_law -> get_law_json -> try_get_content
NewTaipeiItemScript(p) ==
    <<Delay, Get("FLAWDAT0202", FALSE, p.net = "fail1")>>
        \o (IF TryGetContent(p.net = "fail1", p.listed, p.arts).ok THEN <<>>
            ELSE <<Get("FLAWDAT0201", FALSE, p.net = "fail2")>>)

\* Taichung, Taoyuan, Kaohsiung process_law -> get_law_json
TableItemScript(p) == <<Delay, Get("law", FALSE, p.net = "fail1")>>

ItemScript(s, p) ==
    CASE s = "central" -> CentralItemScript(p)
      [] s = "taipei" -> TaipeiItemScript(p)
      [] s = "new_taipei" -> NewTaipeiItemScript(p)
      [] OTHER -> TableItemScript(p)

\* CentralLawCrawler.get_law_links, category after category until the loop
\* of get_law_urls returns
RECURSIVE CentralVisits(_, _, _)
CentralVisits(st, category_links, j) ==
    IF j > Len(category_links) THEN <<>>
    ELSE LET link == category_links[j]
             page == IF link.kind = "site" THEN st.cats[link.c] ELSE st.emerg
         IN <<Delay, Get("category", FALSE, ~page.fetch)>>
                \o (IF CentralGetLawLinks(st, link) # <<>> THEN <<>>
                    ELSE CentralVisits(st, category_links, j + 1))

\* CentralLawCrawler.get_law_urls: get_category_links, then the categories
CentralListScript(st) ==
    <<Get("search", FALSE, ~st.entry)>>
        \o CentralVisits(st, CentralGetCategoryLinks(st), 1)

\* a delay and a request for each of the pages j..Len(cats)
RECURSIVE DelayedVisits(_, _)
DelayedVisits(st, j) ==
    IF j > Len(st.cats) THEN <<>>
    ELSE <<Delay, Get("page", FALSE, ~st.cats[j].fetch)>> \o DelayedVisits(st, j + 1)

\* TaipeiLawCrawler.get_law_urls: get_total_pages, then the pages;
\* TaichungLawCrawler.get_law_urls: get_categories, then the categories
PagedListScript(st) ==
    <<Get("first", FALSE, ~st.entry)>>
        \o (IF st.entry THEN DelayedVisits(st, 1) ELSE <<>>)

\* NewTaipeiLawCrawler.get_law_links_from_category: the request, and the
\* delay after the page was parsed
RECURSIVE VisitsThenDelay(_, _)
VisitsThenDelay(st, j) ==
    IF j > Len(st.cats) THEN <<>>
    ELSE <<Get("category", FALSE, ~st.cats[j].fetch)>>
             \o (IF st.cats[j].fetch THEN <<Delay>> ELSE <<>>)
             \o VisitsThenDelay(st, j + 1)

\* NewTaipeiLawCrawler.get_law_urls
NewTaipeiListScript(st) ==
    <<Get("Level", FALSE, ~st.entry)>>
        \o (IF st.entry THEN VisitsThenDelay(st, 1) ELSE <<>>)

\* get_law_links_from_page for the pages the while loop reaches
RECURSIVE ChainVisits(_, _)
ChainVisits(st, j) ==
    IF j > Len(st.cats) THEN <<>>
    ELSE <<Delay, Get("page", FALSE, ~st.cats[j].fetch)>>
             \o (IF st.cats[j].fetch /\ st.cats[j].next THEN ChainVisits(st, j + 1)
                 ELSE <<>>)

\* Taoyuan / Kaohsiung get_law_urls: get_all_laws_url, then the chain
ChainListScript(st) ==
    <<Get("all", FALSE, ~st.entry)>>
        \o (IF st.entry THEN ChainVisits(st, 1) ELSE <<>>)

ListScript(s, st) ==
    CASE s = "central" -> CentralListScript(st)
      [] s = "new_taipei" -> NewTaipeiListScript(st)
      [] Chained(s) -> ChainListScript(st)
      [] OTHER -> PagedListScript(st)

\* the adapter retries a response whose status is in status_forcelist
ShouldRetry(st) == st \in StatusForcelist

\* while retries are left of the total
RetriesLeftAlways(n) == TRUE

RetriesLeft(n) == n < RetryTotal

Logged(ev, outcome) ==
    [kind |-> "request", to |-> ev.to, timeout |-> ev.timeout, outcome |-> outcome]

\* time.sleep(random.uniform(delay_min, delay_max))
RandomDelay ==
    /\ script # <<>>
    /\ Head(script).kind = "delay"
    /\ log' = Append(log, [kind |-> "delay", to |-> "", timeout |-> FALSE,
                           outcome |-> "slept"])
    /\ script' = Tail(script)
    /\ UNCHANGED <<unit, attempts, status>>
    /\ UNCHANGED <<driverVars, mainVars, extraVars>>

\* the request in hand was answered with a retryable status: it is sent again
SendRetry ==
    /\ script # <<>>
    /\ Head(script).kind = "get"
    /\ \E st \in ServerStatuses :
        /\ ShouldRetry(st)
        /\ RetriesLeft(attempts)
        /\ attempts' = attempts + 1
        /\ status' = st
    /\ UNCHANGED <<unit, script, log>>
    /\ UNCHANGED <<driverVars, mainVars, extraVars>>

\* a retryable status with no retry left: session.get raises
RaiseRetryError ==
    /\ script # <<>>
    /\ Head(script).kind = "get"
    /\ Head(script).fails
    /\ \E st \in ServerStatuses :
        /\ ShouldRetry(st)
        /\ ~RetriesLeft(attempts)
        /\ status' = st
    /\ attempts' = 0
    /\ log' = Append(log, Logged(Head(script), "raised"))
    /\ script' = Tail(script)
    /\ UNCHANGED unit
    /\ UNCHANGED <<driverVars, mainVars, extraVars>>

\* any other status: session.get returns the response
Respond ==
    /\ script # <<>>
    /\ Head(script).kind = "get"
    /\ ~Head(script).fails
    /\ \E st \in ServerStatuses :
        /\ ~ShouldRetry(st)
        /\ status' = st
    /\ attempts' = 0
    /\ log' = Append(log, Logged(Head(script), "response"))
    /\ script' = Tail(script)
    /\ UNCHANGED unit
    /\ UNCHANGED <<driverVars, mainVars, extraVars>>

NextNet == RandomDelay \/ SendRetry \/ RaiseRetryError \/ Respond

\* the pages of the followed items: every way the requests can go
NetPages(s) ==
    {p \in Pages(s) : /\ p.disk
                      /\ p.listed \in {<<>>, <<"a">>}
                      /\ p.shown \in {NoElem, <<"a">>}}

\* SpecNet: one unit of work of one source
InitNet ==
    /\ src \in Sources
    /\ unit \in {"item", "listing"}
    /\ urls \in IF unit = "item" THEN SeqsFrom(NetPages(src), 1, 1) ELSE {<<>>}
    /\ site \in IF unit = "listing"
                THEN {[s \in Sources |-> IF s = src THEN st ELSE DownSite] :
                         st \in Sites(src)}
                ELSE {[s \in Sources |-> DownSite]}
    /\ script = IF unit = "item" THEN ItemScript(src, urls[1])
                ELSE ListScript(src, site[src])
    /\ log = <<>>
    /\ attempts = 0
    /\ status = 0
    /\ source = "none"
    /\ mpc = 0
    /\ started = <<>>
    /\ handed = <<>>
    /\ IdleExtra
    /\ config = [batch_size |-> 1, max_workers |-> 1]
    /\ hashseed = 0
    /\ dirExists = FALSE
    /\ files = <<>>
    /\ InitDriver

SpecNet == InitNet /\ [][NextNet]_vars

(***************************************************************************)
(* Claims about delays, timeouts and retries (checked under SpecNet)       *)
(***************************************************************************)

\* C14 as stated: every request a unit of work sends is preceded by a
\* random_delay of that unit: there is a delay before its first request and
\* between any two consecutive requests, in per-item extraction and in
\* listing discovery, for every source.
C14_DelayBeforeEveryRequest ==
    \A j \in 1..Len(log) :
        log[j].kind = "request" => (j > 1 /\ log[j - 1].kind = "delay")

\* C15 as stated: every request is sent with a per-request timeout.
C15_EveryRequestHasTimeout ==
    \A j \in 1..Len(log) : log[j].kind = "request" => log[j].timeout

\* the retry rule of the session: a request is sent again only after a status
\* of the retry set and at most RetryTotal times; a status outside the set
\* ends the request with a response, the retries used up end it with an
\* exception
RetryRule ==
    /\ attempts <= RetryTotal
    /\ attempts > 0 => status \in StatusForcelist
    /\ (log # <<>> /\ log[Len(log)].kind = "request" /\ attempts = 0) =>
        (log[Len(log)].outcome = "raised" <=> status \in StatusForcelist)

Succeeds(k) == urls[k].outcome = "truthy"

\* C23 as stated: with an extractor that fails on the items at even
\* indices of the list and succeeds on those at odd indices (indices as the
\* list has them, from 0), process_batch over N items returns ceil(N/2).
C23_EvenFailCeil ==
    (pc = "done" /\ \A k \in Items : Succeeds(k) <=> (k - 1) % 2 = 1)
    => processed_count = (N + 1) \div 2

\* C23, amended: with that extractor process_batch returns floor(N/2), the
\* number of odd indices below N; it returns ceil(N/2) when the failing
\* items are the second, fourth, ... of the list (positions counted from 1),
\* for every N, batch_size and max_workers.
C23_EvenFailFloor ==
    /\ (pc = "done" /\ \A k \in Items : Succeeds(k) <=> (k - 1) % 2 = 1)
       => processed_count = N \div 2
    /\ (pc = "done" /\ \A k \in Items : Succeeds(k) <=> k % 2 = 1)
       => processed_count = (N + 1) \div 2

C23_Witness ==
    /\ pc = "done"
    /\ N = 3
    /\ \A k \in Items : Succeeds(k) <=> (k - 1) % 2 = 1
    /\ \E k \in Items : result[k] = "raised"
    /\ processed_count = 1

\* C24: progress is advanced by one for each item collected, whatever its
\* future holds: progress is the number of collected items, lies between the
\* success count and N, and is N when process_batch returns.
C24_ProgressPerItem ==
    /\ progress = Cardinality({k \in Items : collected[k]})
    /\ processed_count <= progress
    /\ progress <= N
    /\ pc = "done" => progress = N

C24_Witness ==
    /\ pc = "done"
    /\ N = 3
    /\ progress = 3
    /\ processed_count = 1
    /\ \E k \in Items : result[k] = "raised"
    /\ \E k \in Items : result[k] = "false"

\* the number of items of a list whose outcome is truthy
RECURSIVE TruthyIn(_)
TruthyIn(items) ==
    IF items = <<>> THEN 0
    ELSE (IF Head(items).outcome = "truthy" THEN 1 ELSE 0) + TruthyIn(Tail(items))

\* C26: the returned count and the final progress are functions of the item
\* list alone: whatever the order in which the workers of a batch started
\* and completed and in which their futures were collected, process_batch
\* returns the number of truthy items and a progress of N.
C26_OrderIndependent ==
    pc = "done" => (processed_count = TruthyIn(urls) /\ progress = N)

\* a run in which the second item of a batch was collected before the first
C26_Witness ==
    /\ pc = "collect"
    /\ N >= 2
    /\ BatchOf(1) = BatchOf(2)
    /\ collected[2]
    /\ ~collected[1]
    /\ urls[1].outcome = "truthy"
    /\ urls[2].outcome = "truthy"
    /\ processed_count = 1

(***************************************************************************)
(* SpecFull: a crawler's run in which a write of save_json can fail after  *)
(* the file was opened (the disk is full)                                  *)
(***************************************************************************)

\* f.write / the flush at close raises OSError: the exception leaves
\* save_json and process_law, the file stays as the writes so far left it
WriteFault ==
    /\ UNCHANGED outerVars
    /\ Alive
    /\ \E k \in Items :
        /\ fut[k] = "writing"
        /\ fut' = [fut EXCEPT ![k] = "finished"]
        /\ result' = [result EXCEPT ![k] = "raised"]
    /\ UNCHANGED <<config, src, urls, hashseed, pc, i, submitted, collected, calls,
                   processed_count, progress>>
    /\ UNCHANGED crawlVars

NextFull == NextCrawl \/ WriteFault

\* reachable pages with one of two titles, on a disk that can be opened
FullPages(s) ==
    {p \in Pages(s) : /\ p.disk
                      /\ p.net = "ok"
                      /\ p.alt = 0
                      /\ p.arts = 1
                      /\ GetLawJson(s, p).ok
                      /\ GetLawJson(s, p).LawName \in {<<"a">>, <<"a", "a">>}
                      /\ p.shown \in {NoElem, <<"a">>, <<"a", "a">>}
                      /\ (p.shown # NoElem => p.listed \in {<<>>, p.shown})}

InitFull ==
    /\ config \in Configs
    /\ src \in Sources
    /\ urls \in SeqsFrom(FullPages(src), 1, MaxCrawlItems)
    /\ hashseed = 0
    /\ dirExists = FALSE
    /\ files = <<>>
    /\ InitDriver
    /\ IdleMain
    /\ IdleNet
    /\ IdleExtra

SpecFull == InitFull /\ [][NextFull]_vars

\* C22 as stated: when process_batch returns, if every item was extracted
\* and saved and the filenames are pairwise distinct there are N files in
\* the output directory and the count is N; and in any case the number of
\* files written is at most the returned count.
C22_FilesMatchCount ==
    pc = "done" =>
        /\ (/\ \A k \in Items : result[k] = "true"
            /\ \A a \in Items : \A b \in Items : a # b => PathOf(a) # PathOf(b))
           => (/\ Cardinality(DOMAIN files) = N
               /\ \A path \in DOMAIN files : path.dir = "out"
               /\ processed_count = N)
        /\ Cardinality(DOMAIN files) <= processed_count

(***************************************************************************)
(* Claims about New Taipei's two pages (checked under SpecNet)             *)
(***************************************************************************)

\* the value of url when NewTaipeiLawCrawler.get_law_json sets
\* content["LawURL"] = url
NewTaipeiLawURL(p) ==
    IF TryGetContent(p.net = "fail1", p.listed, p.arts).ok
    THEN "FLAWDAT0202"
    ELSE "FLAWDAT0201"

\* the positions of the log that are requests
Requests == {j \in 1..Len(log) : log[j].kind = "request"}

\* the page answers and has at least one article row
Yields0202(p) == p.net # "fail1" /\ p.arts >= 1

Yields0201(p) == p.net # "fail2" /\ p.alt >= 1

\* C29: New Taipei's get_law_json requests FLAWDAT0202 first, and
\* FLAWDAT0201 only after it and only when the first attempt yielded no
\* article; when it ends it returns a record exactly when one of the two
\* attempts yielded an article, with the URL of the attempt that yielded it
\* (the last one requested) as LawURL, and None when both fail.
C29_TwoAttemptsInOrder ==
    (unit = "item" /\ src = "new_taipei") =>
        LET p == urls[1] IN
        /\ \A j \in Requests :
            /\ (\A h \in Requests : j <= h) => log[j].to = "FLAWDAT0202"
            /\ log[j].to = "FLAWDAT0201" =>
                /\ \E h \in Requests : h < j /\ log[h].to = "FLAWDAT0202"
                /\ ~Yields0202(p)
            /\ \A h \in Requests : log[h].to = log[j].to => h = j
        /\ script = <<>> =>
            /\ GetLawJson(src, p).ok <=> (Yields0202(p) \/ Yields0201(p))
            /\ GetLawJson(src, p).ok =>
                /\ GetLawJson(src, p).LawArticles >= 1
                /\ \E j \in Requests :
                    /\ \A h \in Requests : h <= j
                    /\ log[j].to = NewTaipeiLawURL(p)
                    /\ log[j].outcome = "response"
                    /\ IF log[j].to = "FLAWDAT0202" THEN Yields0202(p) ELSE Yields0201(p)
            /\ (~Yields0202(p) /\ ~Yields0201(p)) =>
                (~GetLawJson(src, p).ok /\ Cardinality(Requests) = 2)

C29_Witness ==
    /\ unit = "item"
    /\ src = "new_taipei"
    /\ script = <<>>
    /\ Cardinality(Requests) = 2
    /\ urls[1].arts = 0
    /\ urls[1].net = "ok"
    /\ GetLawJson(src, urls[1]).ok
    /\ NewTaipeiLawURL(urls[1]) = "FLAWDAT0201"

(***************************************************************************)
(* The records get_law_json builds. markup is what the detail page holds   *)
(* for the rules the crawler applies to it; an Optional value is a         *)
(* sequence of at most one element: <<>> is None, <<d>> the dict d.        *)
(***************************************************************************)
MaxRows == 1

MaxListItems == 3

IsDigit(c) == c \in {"0", "1", "2", "3", "4", "5", "6", "7", "8", "9"}

\* the ordered selector lists of CentralLawCrawler.get_law_json
date_selectors ==
    <<"#trLNNDate td", "#trLNODate td", ".table-title tr:contains(modified) td",
      "tr:contains(modified) td", "tr:contains(published) td">>

name_selectors == <<"#hlLawName", ".law-title", "h2", "h1", "title">>

category_selectors == <<".table tr:nth-child(3) td", "tr:contains(category) td">>

article_selectors == <<".row", ".law-article-container", ".law-content">>

RECURSIVE FirstElem(_, _)
\* for selector in date_selectors: elem = select_one(selector);
\* if elem: modified_date_elem = elem; break   (a Tag is always truthy)
FirstElem(found, j) ==
    IF j > Len(found) THEN NoElem
    ELSE IF found[j] # NoElem THEN found[j]
    ELSE FirstElem(found, j + 1)

RECURSIVE FirstText(_, _)
\* for selector in name_selectors / category_selectors:
\* if elem and elem.text.strip(): value = elem.text.strip(); break
FirstText(found, j) ==
    IF j > Len(found) THEN <<>>
    ELSE IF found[j] # NoElem /\ Strip(found[j]) # <<>> THEN Strip(found[j])
    ELSE FirstText(found, j + 1)

RECURSIVE RowArticles(_, _, _)
\* for row in rows: if article_no and article: LawArticles.append(...)
RowArticles(law_name, rows, n) ==
    IF n = 0 THEN <<>>
    ELSE LET before == RowArticles(law_name, rows, n - 1) IN
         IF rows[n].article_no # NoElem /\ rows[n].article # NoElem
         THEN Append(before,
                     [ArticleNo |-> law_name \o <<",", " ">> \o GetText(rows[n].article_no),
                      ArticleContent |-> GetText(rows[n].article)])
         ELSE before

RECURSIVE FirstArticles(_, _, _)
\* for selector in article_selectors: ...; if law_data["LawArticles"]: break
FirstArticles(law_name, found, j) ==
    IF j > Len(found) THEN <<>>
    ELSE LET got == RowArticles(law_name, found[j], Len(found[j])) IN
         IF got # <<>> THEN got ELSE FirstArticles(law_name, found, j + 1)

\* CentralLawCrawler.get_law_json on a page m: m.date, m.name, m.category
\* hold select_one's result for each selector of the list, m.rows select's
CentralLawData(m) ==
    IF m.net # "ok" THEN <<>>
    ELSE LET modified_date_elem == FirstElem(m.date, 1)
             law_name == FirstText(m.name, 1)
             law_category == FirstText(m.category, 1)
         IN  IF law_name = <<>> THEN <<>>
             ELSE <<[LawName |-> law_name,
                     LawCategory |-> law_category,
                     LawModifiedDate |-> SelectSeq(GetText(modified_date_elem), IsDigit),
                     LawHistories |-> <<>>,
                     LawArticles |-> FirstArticles(law_name, m.rows, 1),
                     LawURL |-> "url"]>>

\* re.match(r'^[numerals]+,', content): "1" stands for a numeral, "," for
\* the enumeration comma
RECURSIVE Numerals(_)
Numerals(s) == IF s # <<>> /\ s[1] = "1" THEN 1 + Numerals(Tail(s)) ELSE 0

DotForm(content) ==
    /\ Numerals(content) >= 1
    /\ Len(content) > Numerals(content)
    /\ content[Numerals(content) + 1] = ","

\* TaipeiLawCrawler._process_article(article, chapter, law_data): the value
\* of law_data["LawArticles"] after the call. The assignment to chapter in
\* the heading branch binds the callee's parameter only.
ProcessArticle(article, chapter, law_articles) ==
    IF article.pre = NoElem /\ Strip(article.text) # <<>> THEN law_articles
    ELSE IF article.pre = NoElem THEN law_articles
    ELSE LET text == Strip(article.pre)
             number == IF DotForm(text) THEN SubSeq(text, 1, Numerals(text) + 1)
                       ELSE GetText(article.col_no)
             content == IF DotForm(text)
                        THEN Strip(SubSeq(text, Len(number) + 1, Len(text)))
                        ELSE text
         IN  IF content # <<>>
             THEN Append(law_articles,
                         [Chapter |-> chapter, ArticleNo |-> number,
                          ArticleContent |-> content])
             ELSE law_articles

RECURSIVE TaipeiArticles(_, _)
\* chapter = ""; for article in articles: self._process_article(article,
\* chapter, law_data)
TaipeiArticles(articles, n) ==
    IF n = 0 THEN <<>>
    ELSE ProcessArticle(articles[n], <<>>, TaipeiArticles(articles, n - 1))

\* TaipeiLawCrawler.get_law_json
TaipeiLawData(m) ==
    IF m.net # "ok" THEN <<>>
    ELSE IF GetText(m.law_name_elem) = <<>> THEN <<>>
    ELSE <<[LawName |-> GetText(m.law_name_elem),
            LawModifiedDate |-> GetText(m.modified_date_elem),
            LawArticles |-> TaipeiArticles(m.articles, Len(m.articles)),
            LawURL |-> "content_url"]>>

\* the article rows of a content table, each with a number and a text
ArticleRows(n) == [a \in 1..n |-> [ArticleNo |-> DigitsOf(a), ArticleContent |-> <<"a">>]]

\* NewTaipeiLawCrawler.get_law_json: try_get_content's dict plus LawURL
NewTaipeiLawData(m) ==
    LET content == NewTaipeiGetLawJson(m) IN
    IF ~content.ok THEN <<>>
    ELSE <<[LawName |-> content.LawName,
            LastModified |-> <<>>,
            LawArticles |-> ArticleRows(content.LawArticles),
            LawURL |-> NewTaipeiLawURL(m)]>>

\* TaichungLawCrawler.get_law_json
TaichungLawData(m) ==
    IF m.net # "ok" THEN <<>>
    ELSE <<[LawName |-> IF m.shown = NoElem THEN m.listed ELSE m.shown,
            LawCategory |-> GetText(m.category),
            LawModifiedDate |-> GetText(m.modified),
            LawArticles |-> ArticleRows(m.arts),
            LawURL |-> "url"]>>

\* Taoyuan's and Kaohsiung's get_law_json; the LawNumber key exists only
\* when the information table has that row
TaoyuanLawData(m) ==
    IF m.net # "ok" THEN <<>>
    ELSE LET law_data ==
                 [LawName |-> IF m.shown = NoElem THEN m.listed ELSE m.shown,
                  LawURL |-> "url",
                  LawDate |-> <<>>,
                  LawType |-> <<>>,
                  LawCategory |-> GetText(m.category),
                  LawPublishDate |-> <<>>,
                  LawModifiedDate |-> GetText(m.modified),
                  LawArticles |-> ArticleRows(m.arts)]
         IN  IF m.number = NoElem THEN <<law_data>>
             ELSE <<[k \in DOMAIN law_data \cup {"LawNumber"} |->
                        IF k = "LawNumber" THEN m.number ELSE law_data[k]]>>

LawDataOf(s, m) ==
    CASE s = "central" -> CentralLawData(m)
      [] s = "taipei" -> TaipeiLawData(m)
      [] s = "new_taipei" -> NewTaipeiLawData(m)
      [] s = "taichung" -> TaichungLawData(m)
      [] OTHER -> TaoyuanLawData(m)

\* get_law_json runs on the page and returns
CallGetLawJson ==
    /\ markup # <<>>
    /\ returned = <<>>
    /\ returned' = <<LawDataOf(src, markup[1])>>
    /\ UNCHANGED <<markup, driverVars, mainVars, netVars, walkVars, delayVars>>

NextParse == CallGetLawJson

\* what select_one can give for one selector: nothing, a blank element, or
\* an element with one of two texts
Found == {NoElem, <<" ">>, <<"1", "/">>, <<"2">>}

RowsFound ==
    SeqsUpTo([article_no : {NoElem, <<"n">>}, article : {NoElem, <<"1">>, <<"2">>}],
             MaxRows)

CentralPlain ==
    [net |-> "ok",
     date |-> [j \in DOMAIN date_selectors |-> NoElem],
     name |-> [j \in DOMAIN name_selectors |-> <<"2">>],
     category |-> [j \in DOMAIN category_selectors |-> NoElem],
     rows |-> [j \in DOMAIN article_selectors |-> <<>>]]

\* Central pages: one field's selectors vary at a time
CentralMarkups ==
    {[CentralPlain EXCEPT !.net = "fail1"]}
    \cup {[CentralPlain EXCEPT !.date = d] : d \in [DOMAIN date_selectors -> Found]}
    \cup {[CentralPlain EXCEPT !.name = d] : d \in [DOMAIN name_selectors -> Found]}
    \cup {[CentralPlain EXCEPT !.category = d] :
             d \in [DOMAIN category_selectors -> Found]}
    \cup {[CentralPlain EXCEPT !.rows = d] : d \in [DOMAIN article_selectors -> RowsFound]}

\* Taipei's list items: a heading (no law-articlepre block), or an article
\* whose block holds the text
ListItems ==
    [pre : {NoElem}, text : {<<" ">>, <<"x">>, <<"y">>}, col_no : {NoElem}]
    \cup {[pre |-> t, text |-> <<"n">> \o t, col_no |-> <<"n">>] :
             t \in {<<" ">>, <<"a">>, <<"1", ",", "a">>, <<"1", ",">>}}

TaipeiMarkups ==
    [net : {"ok"}, law_name_elem : {<<"a">>}, modified_date_elem : {NoElem},
     articles : SeqsUpTo(ListItems, MaxListItems)]
    \cup [net : {"ok", "fail1", "fail2"}, law_name_elem : {NoElem, <<"a">>},
          modified_date_elem : {NoElem, <<"1">>}, articles : {<<>>}]

TableMarkups ==
    [listed : {<<"a">>}, shown : {NoElem, <<>>, <<"a", "a">>},
     category : {NoElem, <<"a">>}, modified : {NoElem, <<"1">>},
     number : {NoElem, <<"n">>}, arts : 0..MaxArticles, net : {"ok", "fail1"}]

Markups(s) ==
    CASE s = "central" -> CentralMarkups
      [] s = "taipei" -> TaipeiMarkups
      [] s = "new_taipei" -> NetPages(s)
      [] s = "taichung" -> {m \in TableMarkups : m.number = NoElem}
      [] OTHER -> TableMarkups

\* SpecParse: get_law_json of one source on one page
InitParse ==
    /\ src \in Sources
    /\ markup \in {<<m>> : m \in Markups(src)}
    /\ returned = <<>>
    /\ urls = <<>>
    /\ config = [batch_size |-> 1, max_workers |-> 1]
    /\ hashseed = 0
    /\ dirExists = FALSE
    /\ files = <<>>
    /\ InitDriver
    /\ IdleMain
    /\ IdleNet
    /\ IdleWalk
    /\ IdleDelay

SpecParse == InitParse /\ [][NextParse]_vars

\* get_law_json returned a dict
ReturnedRecord == returned # <<>> /\ returned[1] # <<>>

(***************************************************************************)
(* Claims about the returned records (checked under SpecParse)             *)
(***************************************************************************)

CanonicalFields == {"LawName", "LawCategory", "LawModifiedDate", "LawURL", "LawArticles"}

\* C21: every record any source's get_law_json returns has all five
\* canonical fields, LawName, LawCategory, LawModifiedDate, LawURL and
\* LawArticles, under those keys.
C21_CanonicalFields == ReturnedRecord => CanonicalFields \subseteq DOMAIN returned[1][1]

\* the selectors of a list that gave an element with non-blank text
NonEmptyAt(found) == {j \in DOMAIN found : found[j] # NoElem /\ Strip(found[j]) # <<>>}

\* the text of the first of them, empty when there is none
FirstNonEmpty(found) ==
    IF NonEmptyAt(found) = {} THEN <<>>
    ELSE Strip(found[CHOOSE j \in NonEmptyAt(found) : \A h \in NonEmptyAt(found) : j <= h])

\* C27: every field of the Central record comes from the first selector of
\* its list that yields a non-empty result: the name, the category and the
\* modified date (its digits) from the first selector whose element has
\* text, the articles from the first selector whose rows give an article,
\* never from two selectors.
C27_FirstNonEmptySelector ==
    (src = "central" /\ ReturnedRecord) =>
        LET m == markup[1]
            d == returned[1][1]
            of(j) == RowArticles(d.LawName, m.rows[j], Len(m.rows[j]))
        IN  /\ d.LawName = FirstNonEmpty(m.name)
            /\ d.LawCategory = FirstNonEmpty(m.category)
            /\ d.LawModifiedDate = SelectSeq(FirstNonEmpty(m.date), IsDigit)
            /\ \/ \E j \in DOMAIN m.rows :
                    /\ of(j) # <<>>
                    /\ d.LawArticles = of(j)
                    /\ \A h \in 1..(j - 1) : of(h) = <<>>
               \/ /\ d.LawArticles = <<>>
                  /\ \A j \in DOMAIN m.rows : of(j) = <<>>

\* a list item that is a chapter heading
IsHeading(article) == article.pre = NoElem /\ Strip(article.text) # <<>>

RECURSIVE ChapterAt(_, _)
\* the text of the most recent heading among the first n list items
ChapterAt(articles, n) ==
    IF n = 0 THEN <<>>
    ELSE IF IsHeading(articles[n]) THEN Strip(articles[n].text)
    ELSE ChapterAt(articles, n - 1)

\* the positions of the list items that became an article, in order
ArticlePositions(articles) ==
    LET Became(n) == ProcessArticle(articles[n], <<>>, <<>>) # <<>> IN
    SelectSeq([n \in 1..Len(articles) |-> n], Became)

\* C28: in a Taipei record each article's Chapter is the text of the most
\* recent chapter heading that precedes it in the list, and is empty only
\* for the articles before every heading.
C28_ChapterOfLatestHeading ==
    (src = "taipei" /\ ReturnedRecord) =>
        LET articles == markup[1].articles
            d == returned[1][1]
            at == ArticlePositions(articles)
        IN  /\ Len(d.LawArticles) = Len(at)
            /\ \A k \in 1..Len(at) :
                /\ d.LawArticles[k].Chapter = ChapterAt(articles, at[k])
                /\ d.LawArticles[k].Chapter = <<>> =>
                       \A n \in 1..at[k] : ~IsHeading(articles[n])

(***************************************************************************)
(* Taoyuan's and Kaohsiung's get_law_urls, one page fetch at a time. A     *)
(* listing site is                                                         *)
(*   start   whether get_all_laws_url gets its answer                      *)
(*   pages   the pages; page 1 is the start URL, and each page has         *)
(*           fetch  whether its request succeeds                           *)
(*           laws   the number of law links on it                          *)
(*           next   the page its enabled next link leads to (0: none)      *)
(***************************************************************************)
MaxChain == 2

MaxFetches == 4

ChainSites ==
    {c \in [start : BOOLEAN,
            pages : SeqsFrom([fetch : BOOLEAN, laws : 0..MaxLaws, next : 0..MaxChain],
                             1, MaxChain)] :
        \A j \in DOMAIN c.pages : c.pages[j].next <= Len(c.pages)}

\* get_law_links_from_page(url): (law_links, next_page_url), or ([], None)
\* when the request or the parsing raised
GetLawLinksFromPage(c, url) ==
    IF c.pages[url].fetch
    THEN [links |-> [n \in 1..c.pages[url].laws |-> WorkItem("law", url, n)],
          next_url |-> c.pages[url].next]
    ELSE [links |-> <<>>, next_url |-> 0]

\* start_url, total_laws = self.get_all_laws_url(); if not start_url: return
GetAllLawsUrl ==
    /\ wpc = "start"
    /\ IF chain[1].start
       THEN wpc' = "loop" /\ current_url' = 1
       ELSE wpc' = "returned" /\ current_url' = 0
    /\ UNCHANGED <<chain, all_links, fetched>>
    /\ UNCHANGED <<driverVars, mainVars, netVars, parseVars, delayVars>>

\* one iteration of while current_url
WalkPage ==
    /\ wpc = "loop"
    /\ current_url # 0
    /\ Len(fetched) < MaxFetches
    /\ LET got == GetLawLinksFromPage(chain[1], current_url) IN
        /\ fetched' = Append(fetched, current_url)
        /\ all_links' = all_links \o got.links
        /\ IF got.next_url = 0
           THEN wpc' = "returned" /\ UNCHANGED current_url
           ELSE wpc' = "loop" /\ current_url' = got.next_url
    /\ UNCHANGED chain
    /\ UNCHANGED <<driverVars, mainVars, netVars, parseVars, delayVars>>

NextWalk == GetAllLawsUrl \/ WalkPage

\* SpecWalk: get_law_urls of Taoyuan or Kaohsiung on one listing site
InitWalk ==
    /\ src \in {"taoyuan", "kaohsiung"}
    /\ chain \in {<<c>> : c \in ChainSites}
    /\ wpc = "start"
    /\ current_url = 0
    /\ all_links = <<>>
    /\ fetched = <<>>
    /\ urls = <<>>
    /\ config = [batch_size |-> 1, max_workers |-> 1]
    /\ hashseed = 0
    /\ dirExists = FALSE
    /\ files = <<>>
    /\ InitDriver
    /\ IdleMain
    /\ IdleNet
    /\ IdleParse
    /\ IdleDelay

SpecWalk == InitWalk /\ [][NextWalk]_vars

RECURSIVE LinksAlong(_, _, _)
\* the links of the first n fetched pages, in order
LinksAlong(c, pages, n) ==
    IF n = 0 THEN <<>>
    ELSE LinksAlong(c, pages, n - 1) \o GetLawLinksFromPage(c, pages[n]).links

\* C30: Taoyuan's and Kaohsiung's get_law_urls fetches the pages along the
\* next-page chain from the start page, each once and in chain order, and
\* stops at the first page that has no enabled next link or whose fetch
\* failed, returning the links found until then; no page is fetched
\* twice, also when a next-page link points back to an earlier page.
C30_EachPageOnce ==
    wpc \in {"loop", "returned"} =>
        LET c == chain[1] IN
        /\ \A a, b \in DOMAIN fetched : fetched[a] = fetched[b] => a = b
        /\ fetched # <<>> => fetched[1] = 1
        /\ \A a \in 1..(Len(fetched) - 1) :
            /\ c.pages[fetched[a]].fetch
            /\ fetched[a + 1] = c.pages[fetched[a]].next
        /\ all_links = LinksAlong(c, fetched, Len(fetched))
        /\ (wpc = "returned" /\ fetched # <<>>) =>
            LET last == c.pages[fetched[Len(fetched)]] IN
            ~last.fetch \/ last.next = 0

(***************************************************************************)
(* random_delay in the workers of one batch. Time is counted in whole      *)
(* units; Tick lets one unit pass for every worker that is in time.sleep.  *)
(***************************************************************************)
MaxDelay == 2

\* the threads of one batch's ThreadPoolExecutor that have an item
Workers == 1..Min(config.batch_size, config.max_workers)

\* random.uniform(a, b): a value d with a <= d <= b
UniformFromZero(a, b) == 0..b

Uniform(a, b) == a..b

\* a worker calls random_delay: time.sleep(random.uniform(delay_min, delay_max))
Sleep(w) ==
    /\ wstate[w] = "ready"
    /\ \E d \in Uniform(config.delay_min, config.delay_max) :
           drawn' = [drawn EXCEPT ![w] = d]
    /\ wstate' = [wstate EXCEPT ![w] = "asleep"]
    /\ UNCHANGED slept
    /\ UNCHANGED <<driverVars, mainVars, netVars, parseVars, walkVars>>

\* one unit of time passes: it counts for the workers that are asleep, and
\* none of them sleeps on beyond its duration
Tick ==
    /\ \E w \in Workers : wstate[w] = "asleep"
    /\ \A w \in Workers : wstate[w] = "asleep" => slept[w] < drawn[w]
    /\ slept' = [w \in Workers |-> IF wstate[w] = "asleep" THEN slept[w] + 1 ELSE slept[w]]
    /\ UNCHANGED <<wstate, drawn>>
    /\ UNCHANGED <<driverVars, mainVars, netVars, parseVars, walkVars>>

\* time.sleep returns in the worker that called it
Wake(w) ==
    /\ wstate[w] = "asleep"
    /\ slept[w] = drawn[w]
    /\ wstate' = [wstate EXCEPT ![w] = "awake"]
    /\ UNCHANGED <<drawn, slept>>
    /\ UNCHANGED <<driverVars, mainVars, netVars, parseVars, walkVars>>

\* the worker issues its request: self.session.get(url), which waits for
\* no other worker
SessionGet(w) ==
    /\ wstate[w] = "awake"
    /\ wstate' = [wstate EXCEPT ![w] = "requested"]
    /\ UNCHANGED <<drawn, slept>>
    /\ UNCHANGED <<driverVars, mainVars, netVars, parseVars, walkVars>>

NextDelay ==
    \/ \E w \in Workers : Sleep(w)
    \/ Tick
    \/ \E w \in Workers : Wake(w)
    \/ \E w \in Workers : SessionGet(w)

DelayConfigs ==
    {c \in [batch_size : 1..MaxBatch, max_workers : 1..MaxWorkers,
            delay_min : 0..MaxDelay, delay_max : 0..MaxDelay] :
        c.delay_min <= c.delay_max}

\* SpecDelay: the workers of one batch, each delaying before its request
InitDelay ==
    /\ config \in DelayConfigs
    /\ wstate = [w \in Workers |-> "ready"]
    /\ drawn = [w \in Workers |-> 0]
    /\ slept = [w \in Workers |-> 0]
    /\ src = "func"
    /\ urls = <<>>
    /\ hashseed = 0
    /\ dirExists = FALSE
    /\ files = <<>>
    /\ InitDriver
    /\ IdleMain
    /\ IdleNet
    /\ IdleParse
    /\ IdleWalk

SpecDelay == InitDelay /\ [][NextDelay]_vars

(***************************************************************************)
(* Claims about the delay (checked under SpecDelay)                        *)
(***************************************************************************)

\* C25: each random_delay blocks only the worker that called it, for a
\* duration d with delay_min <= d <= delay_max, exactly the constant when
\* delay_min = delay_max; a worker that is not in its own delay can start
\* its delay or issue its request whatever the other workers of the batch
\* are doing.
C25_DelayPerWorker ==
    \A w \in DOMAIN wstate :
        /\ wstate[w] # "ready" =>
            /\ config.delay_min <= drawn[w]
            /\ drawn[w] <= config.delay_max
            /\ config.delay_min = config.delay_max => drawn[w] = config.delay_min
        /\ wstate[w] = "asleep" => slept[w] <= drawn[w]
        /\ wstate[w] \in {"awake", "requested"} => slept[w] = drawn[w]
        /\ wstate[w] = "ready" => ENABLED Sleep(w)
        /\ wstate[w] = "awake" => ENABLED SessionGet(w)

C25_Witness ==
    \E w, v \in DOMAIN wstate :
        /\ wstate[w] = "asleep"
        /\ slept[w] < drawn[w]
        /\ wstate[v] = "requested"
        /\ slept[v] = drawn[v]
        /\ drawn[v] >= 1
        /\ config.delay_min < config.delay_max

====
